---- MODULE Spec2Model ----
(***************************************************************************)
(* DnaCauldron: the assembly mix (fragments, reverse fragments,            *)
(* connections graph), the canonicalisation of fragment cycles, the lazy   *)
(* cycle stream with its filters, and the orchestrators that consume it.   *)
(*                                                                         *)
(* Nucleotides are the integers 1..4 standing for A, C, G, T, so that the  *)
(* integer order is the character order Python's min() uses and the        *)
(* complement of x is 5 - x.  A string is a sequence of nucleotides.       *)
(***************************************************************************)
EXTENDS Integers, Sequences, FiniteSets, TLC

(***************************************************************************)
(* Bounds.                                                                 *)
(***************************************************************************)
MaxFragments == 3       \* forward fragments in a mix
MaxConstructs == 3      \* largest cap (max_constructs / max_assemblies)
MaxCutoff == 1          \* largest randomization_staling_cutoff tried
MaxShuffle == 1         \* shuffles tried per pass: offsets 0..MaxShuffle
MaxParts == 6           \* parts given to a BASIC assembly
MaxCuts == 2            \* restriction sites of a record given to a mix
MaxStreamFragments == 2 \* forward fragments of a mix with two cycle streams

DefaultStalingCutoff == 100

\* len([1, 2, 3]), the items the randomized test asks for
ZipLength == 3

\* max(len(left_end), len(right_end)) > 4: an adapter end
LongOverhang == 4

\* len(adapter_fragments) != 4, len(constructs) != 2
AdapterEnds == 4
AdapterLigations == 2

(***************************************************************************)
(* Strings.                                                                *)
(***************************************************************************)
Range(s) == {s[i] : i \in 1..Len(s)}

Min(S) == CHOOSE x \in S : \A y \in S : x <= y

\* Python's < on strings: lexicographic, a proper prefix is smaller.
LexLT(s, t) ==
    \E i \in 1..(Len(s) + 1) :
        /\ i <= Len(t)
        /\ \A j \in 1..(i - 1) : s[j] = t[j]
        /\ (i = Len(s) + 1 \/ s[i] < t[i])

\* Seq.reverse_complement on a string.
ReverseComplement(s) == [i \in 1..Len(s) |-> 5 - s[Len(s) + 1 - i]]

\* s[k:] + s[:k] for 0 <= k <= len(s).
RotateLeft(s, k) == SubSeq(s, k + 1, Len(s)) \o SubSeq(s, 1, k)

Reverse(s) == [i \in 1..Len(s) |-> s[Len(s) + 1 - i]]

RECURSIVE Flatten(_)
Flatten(ss) == IF ss = <<>> THEN <<>> ELSE Head(ss) \o Flatten(Tail(ss))

RECURSIVE SumSeq(_)
SumSeq(ns) == IF ns = <<>> THEN 0 ELSE Head(ns) + SumSeq(Tail(ns))

\* sub in s (contiguous).
Contains(s, sub) ==
    \E i \in 1..(Len(s) - Len(sub) + 1) : SubSeq(s, i, i + Len(sub) - 1) = sub

(***************************************************************************)
(* Overhangs and sticky-end fragments.                                     *)
(***************************************************************************)
Blunt == [s |-> <<>>, strand |-> "none", sign |-> 0]

\* reverse_complement(overhang): swaps strand and sign, reverse-complements
\* the string, preserves blunt.
OverhangReverseComplement(o) ==
    IF o = Blunt THEN Blunt
    ELSE [s |-> ReverseComplement(o.s),
          strand |-> IF o.strand = "5p" THEN "3p" ELSE "5p",
          sign |-> 0 - o.sign]

\* complement_of(a, b): blunt pairs with blunt; typed overhangs ligate when
\* the strings are reverse complements, both are of the same strand type and
\* they protrude from opposite strands.
complement_of(a, b) ==
    IF a = Blunt \/ b = Blunt THEN a = b
    ELSE /\ b.s = ReverseComplement(a.s)
         /\ a.strand = b.strand
         /\ a.sign = 0 - b.sign

\* fragment1.will_clip_in_this_order_with(fragment2)
will_clip_in_this_order(fragment1, fragment2) ==
    complement_of(fragment1.right, fragment2.left)

\* "%s%s%s" % (f.seq.left_end, f.seq, f.seq.right_end)
FragmentString(f) == f.left.s \o f.seq \o f.right.s

(***************************************************************************)
(* The fragments digestion can produce (the inputs of a mix).              *)
(***************************************************************************)
Sticky(str, strand, sign) == [s |-> str, strand |-> strand, sign |-> sign]

Content(left, seq, right) == [left |-> left, seq |-> seq, right |-> right]

FragmentPool ==
    << Content(Sticky(<<4>>, "5p", -1), <<1>>,    Sticky(<<2>>, "5p", 1)),
       Content(Sticky(<<3>>, "5p", -1), <<2, 2>>, Sticky(<<1>>, "5p", 1)),
       Content(Sticky(<<4>>, "5p", -1), <<3>>,    Sticky(<<1>>, "5p", 1)),
       Content(Sticky(<<1>>, "3p", -1), <<1>>,    Sticky(<<4>>, "3p", 1)),
       Content(Sticky(<<1>>, "3p", -1), <<2, 2>>, Sticky(<<4>>, "3p", 1)),
       Content(Sticky(<<1>>, "5p", -1), <<2, 2>>, Sticky(<<4>>, "5p", 1)),
       Content(Sticky(<<1>>, "5p", -1), <<4, 1>>, Sticky(<<4>>, "5p", 1)) >>

\* The digests tried: up to MaxFragments distinct pool fragments, in pool order.
Digests ==
    { [i \in 1..Len(ix) |-> FragmentPool[ix[i]]] :
        ix \in { s \in UNION { [1..n -> 1..Len(FragmentPool)] : n \in 1..MaxFragments } :
                   \A i \in 1..Len(s) : \A j \in 1..Len(s) : i < j => s[i] < s[j] } }

(***************************************************************************)
(* State.                                                                  *)
(***************************************************************************)
VARIABLES
    digest,             \* what digestion of the mix's constructs produces
    mix_pc,             \* "new" | "ready"
    frag,               \* the fragment objects: id -> fields
    fragments,          \* mix.fragments (ids)
    reverse_fragments,  \* mix.reverse_fragments (ids)
    connections_graph   \* mix.connections_graph: [nodes, edges]

mix_vars == <<digest, mix_pc, frag, fragments, reverse_fragments, connections_graph>>

\* The cycle objects of a canonicalisation.
VARIABLES
    cycle_in,      \* a FragmentsCycle of the mix (its fragments)
    cycle_alt,     \* the same cycle presented rotated / reverse-complemented
    std_in,        \* cycle_in.standardized()
    std_alt,       \* cycle_alt.standardized()
    std_twice      \* cycle_in.standardized().standardized()

canon_vars == <<cycle_in, cycle_alt, std_in, std_alt, std_twice>>

(***************************************************************************)
(* AssemblyMix: fragments, reverse fragments, connections graph.           *)
(***************************************************************************)
\* StickyEndsSeqRecord.reverse_complement(): the twin's content.
fragment_reverse_complement(f) ==
    [f EXCEPT !.left = OverhangReverseComplement(f.right),
              !.seq = ReverseComplement(f.seq),
              !.right = OverhangReverseComplement(f.left)]

\* compute_fragments: one fragment object per digestion product.
compute_fragments(products) ==
    [i \in 1..Len(products) |->
        [left |-> products[i].left, seq |-> products[i].seq,
         right |-> products[i].right,
         is_reverse |-> FALSE, reverse_fragment |-> 0]]

\* The loop of compute_reverse_fragments, from index i on.
RECURSIVE compute_reverse_fragments_loop(_, _, _, _)
compute_reverse_fragments_loop(heap, frs, revs, i) ==
    IF i > Len(frs) THEN [frag |-> heap, reverse_fragments |-> revs]
    ELSE LET fragment == frs[i]
             new_id == Len(heap) + 1
             h1 == [heap EXCEPT ![fragment].is_reverse = FALSE]
             new_fragment ==
                 [fragment_reverse_complement(h1[fragment]) EXCEPT
                     !.is_reverse = TRUE, !.reverse_fragment = fragment]
             h2 == [Append(h1, new_fragment) EXCEPT
                     ![fragment].reverse_fragment = new_id]
         IN compute_reverse_fragments_loop(h2, frs, Append(revs, new_id), i + 1)

compute_reverse_fragments(heap, frs) ==
    compute_reverse_fragments_loop(heap, frs, <<>>, 1)

\* itt.combinations(all_fragments, 2) with both orders tested: the pairs of
\* two different positions of the list.
GraphPairs(all_fragments) ==
    { <<all_fragments[i], all_fragments[j]>> :
        <<i, j>> \in { ij \in (1..Len(all_fragments)) \X (1..Len(all_fragments)) :
                        ij[1] # ij[2] } }

compute_connections_graph(heap, all_fragments) ==
    LET edges == { e \in GraphPairs(all_fragments) :
                     will_clip_in_this_order(heap[e[1]], heap[e[2]]) }
    IN [nodes |-> {e[1] : e \in edges} \cup {e[2] : e \in edges},
        edges |-> edges]

(***************************************************************************)
(* nx.simple_cycles (Johnson): every simple directed cycle exactly once.   *)
(* The traversal takes the nodes in some order; a cycle is reported        *)
(* starting at its first node in that order, and the cycles come out in    *)
(* the order a depth-first search following that node order finds them.    *)
(* The node order is the id order shifted by `shift` (0: the order in      *)
(* which the graph was built; shuffling the adjacency gives another one).  *)
(***************************************************************************)
NodeRank(v, shift, n) == (v - 1 + n - (shift % n)) % n

\* The simple paths of k nodes that start at their node of lowest rank,
\* from those of k - 1 nodes.
ExtendPaths(graph, shift, n, paths) ==
    { Append(pv[1], pv[2]) :
        pv \in { qw \in paths \X graph.nodes :
                   /\ NodeRank(qw[2], shift, n) > NodeRank(qw[1][1], shift, n)
                   /\ qw[2] \notin Range(qw[1])
                   /\ <<qw[1][Len(qw[1])], qw[2]>> \in graph.edges } }

RECURSIVE SimplePaths(_, _, _, _)
SimplePaths(graph, shift, n, paths) ==
    IF paths = {} THEN {}
    ELSE paths \cup SimplePaths(graph, shift, n, ExtendPaths(graph, shift, n, paths))

SimpleCycleSet(graph, shift, n) ==
    { p \in SimplePaths(graph, shift, n, { <<v>> : v \in graph.nodes }) :
        <<p[Len(p)], p[1]>> \in graph.edges }

RankString(p, shift, n) == [i \in 1..Len(p) |-> NodeRank(p[i], shift, n)]

RECURSIVE SortedCycles(_, _, _)
SortedCycles(S, shift, n) ==
    IF S = {} THEN <<>>
    ELSE LET first == CHOOSE x \in S : \A y \in S \ {x} :
                          LexLT(RankString(x, shift, n), RankString(y, shift, n))
         IN <<first>> \o SortedCycles(S \ {first}, shift, n)

simple_cycles(graph, shift, n) ==
    SortedCycles(SimpleCycleSet(graph, shift, n), shift, n)

(***************************************************************************)
(* FragmentsCycle.                                                         *)
(***************************************************************************)
\* sequences.index(min(sequences)), 0-based.
MinIndex(sequences) ==
    Min({ i \in 1..Len(sequences) :
            \A j \in 1..Len(sequences) : ~LexLT(sequences[j], sequences[i]) }) - 1

FragmentStrings(heap, fs) == [i \in 1..Len(fs) |-> FragmentString(heap[fs[i]])]

\* FragmentsCycle.__hash__: the key whose hash identifies the cycle.
cycle_hash(heap, fs) ==
    LET sequences == FragmentStrings(heap, fs)
    IN Flatten(RotateLeft(sequences, MinIndex(sequences)))

\* A faulty variant of reverse_complement: the twins, in the order of the
\* cycle instead of the reverse order.
cycle_reverse_complement_unreversed(heap, fs) ==
    [i \in 1..Len(fs) |-> heap[fs[i]].reverse_fragment]

\* FragmentsCycle.reverse_complement
cycle_reverse_complement(heap, fs) ==
    Reverse([i \in 1..Len(fs) |-> heap[fs[i]].reverse_fragment])

\* len(f) for f in fragments, reverse-flagged ones only when only_reverse.
CycleLength(heap, fs, only_reverse) ==
    SumSeq([i \in 1..Len(fs) |->
              IF only_reverse /\ ~heap[fs[i]].is_reverse THEN 0
              ELSE Len(heap[fs[i]].seq)])

\* FragmentsCycle.standardized
standardized(heap, fs) ==
    LET reverse_length == CycleLength(heap, fs, TRUE)
        total_length == CycleLength(heap, fs, FALSE)
        std_fragments == IF 2 * reverse_length > total_length
                         THEN cycle_reverse_complement(heap, fs)
                         ELSE fs
        index == MinIndex(FragmentStrings(heap, fs))
    IN RotateLeft(std_fragments, index)

(***************************************************************************)
(* Filters, assembly, and the state of one call of an orchestrator.        *)
(***************************************************************************)
VARIABLES
    call,          \* the running call: caller and parameters
    pc,            \* "idle" | "loop" | "pulling" | "finish" | "done" | "raised"
    raw,           \* what is left of the current nx.simple_cycles traversal
    in_pass,       \* randomized mode: inside the for loop of a pass
    seen_hashes,   \* seen_hashes of the cycle stream
    counter,       \* the staling counter of the current pass
    stream,        \* "none" | "running" | "exhausted" | "staled"
    yielded,       \* the fragment lists the cycle stream has yielded
    assembled,     \* the fragment lists assemble() has been called on
    pulls,         \* next() calls made on the construct stream
    items,         \* the constructs the caller has received, in order
    returned,      \* what the caller returns
    seen_run,      \* already-seen cycles in a row since the last new one
    pass_new       \* the current pass has met an unseen cycle

call_vars == <<call, pc, raw, in_pass, seen_hashes, counter, stream, yielded,
               assembled, pulls, items, returned, seen_run, pass_new>>

\* BASICAssembly.simulate, the adapters stage.
VARIABLES
    parts,                 \* the part records: what BsaI makes of each
    basic_pc,              \* "idle" | "triplets" | "returned" | "mix" | "done" | "raised"
    triplet_index,         \* position of the loop over part_triplets (0-based)
    simulation,            \* what simulate_adapters_assembly returned
    adapted_part_records   \* the adapted parts so far

basic_vars == <<parts, basic_pc, triplet_index, simulation, adapted_part_records>>

\* RestrictionLigationMix(constructs, enzyme).
VARIABLES
    records,               \* the records given to the constructor
    self_constructs        \* self.constructs

record_vars == <<records, self_constructs>>

\* GibsonAssemblyMix(constructs).
VARIABLES
    gibson_given,          \* the list given to the constructor: caller's objects
    gibson_constructs      \* self.constructs: the copies, objects of the mix

gibson_vars == <<gibson_given, gibson_constructs>>

\* Cycle streams of one mix, each a generator of its own.
VARIABLES
    adj_order,             \* order of connections_graph.adj: 0 as built
    gens                   \* the generators made by compute_circular_fragments_sets

streams_vars == <<adj_order, gens>>

\* The state outside the mix, the canonicalisation and the stream call.
side_vars == <<basic_vars, record_vars, gibson_vars, streams_vars>>

\* The sites the filters (NoRestrictionSiteFilter and the like) look for:
\* G and CT.
Sites == { <<3>>, <<2, 4>> }

FilterLists == { <<>> } \cup { <<[site |-> site]>> : site \in Sites }

\* A fragment-set filter: no fragment of the list carries the site.
ApplyFragmentsFilter(fl, heap, fs) ==
    \A i \in 1..Len(fs) : ~Contains(heap[fs[i]].seq, fl.site)

\* A record filter: the assembled sequence does not carry the site.
ApplyRecordFilter(fl, construct) == ~Contains(construct.seq, fl.site)

\* A faulty variant of the fragment-set test: only the first fragment of the
\* cycle is shown to the filters.
passes_fragments_set_filters_first_only(filters, heap, fs) ==
    \A i \in 1..Len(filters) : ApplyFragmentsFilter(filters[i], heap, SubSeq(fs, 1, 1))

\* all(fl(cycle.fragments) for fl in fragments_set_filters)
passes_fragments_set_filters(filters, heap, fs) ==
    \A i \in 1..Len(filters) : ApplyFragmentsFilter(filters[i], heap, fs)

\* all(fl(construct) for fl in seqrecord_filters)
passes_seqrecord_filters(filters, construct) ==
    \A i \in 1..Len(filters) : ApplyRecordFilter(filters[i], construct)

\* assemble(fragments, circularize=True): the core sequences in order, each
\* followed by the overhang it shares with the next fragment, written once.
assemble(heap, fs) ==
    [seq |-> Flatten([i \in 1..Len(fs) |-> heap[fs[i]].seq \o heap[fs[i]].right.s]),
     fragments |-> fs]

\* expected_constructs: "any_number" or a number.
AnyNumber == [any_number |-> TRUE, number |-> 0]

Exactly(n) == [any_number |-> FALSE, number |-> n]

NoCall == [caller |-> "none", randomize |-> FALSE,
           randomization_staling_cutoff |-> DefaultStalingCutoff,
           fragments_set_filters |-> <<>>, seqrecord_filters |-> <<>>,
           max_constructs |-> 0, expected_constructs |-> AnyNumber]

CallInit ==
    /\ call = NoCall
    /\ pc = "idle"
    /\ raw = <<>>
    /\ in_pass = FALSE
    /\ seen_hashes = {}
    /\ counter = 0
    /\ stream = "none"
    /\ yielded = <<>>
    /\ assembled = <<>>
    /\ pulls = 0
    /\ items = <<>>
    /\ returned = [kind |-> "none"]
    /\ seen_run = 0
    /\ pass_new = FALSE

(***************************************************************************)
(* Construction of a mix.                                                  *)
(***************************************************************************)
MixInit ==
    /\ digest \in Digests
    /\ mix_pc = "new"
    /\ frag = <<>>
    /\ fragments = <<>>
    /\ reverse_fragments = <<>>
    /\ connections_graph = [nodes |-> {}, edges |-> {}]

\* AssemblyMix.initialize
initialize ==
    /\ mix_pc = "new"
    /\ LET heap0 == compute_fragments(digest)
           frs == [i \in 1..Len(heap0) |-> i]
           rev == compute_reverse_fragments(heap0, frs)
       IN /\ frag' = rev.frag
          /\ fragments' = frs
          /\ reverse_fragments' = rev.reverse_fragments
          /\ connections_graph' =
                 compute_connections_graph(rev.frag, frs \o rev.reverse_fragments)
    /\ mix_pc' = "ready"
    /\ UNCHANGED digest
    /\ UNCHANGED <<call_vars, canon_vars, side_vars>>

CanonInit ==
    /\ cycle_in = <<>>
    /\ cycle_alt = <<>>
    /\ std_in = <<>>
    /\ std_alt = <<>>
    /\ std_twice = <<>>

BasicInit ==
    /\ parts = <<>>
    /\ basic_pc = "idle"
    /\ triplet_index = 0
    /\ simulation = [kind |-> "none"]
    /\ adapted_part_records = <<>>

RecordInit ==
    /\ records = <<>>
    /\ self_constructs = <<>>

GibsonInit ==
    /\ gibson_given = <<>>
    /\ gibson_constructs = <<>>

StreamIds == {1, 2}

\* A generator that does not exist yet.
NoStream ==
    [state |-> "none", randomize |-> FALSE,
     randomization_staling_cutoff |-> DefaultStalingCutoff,
     graph |-> [nodes |-> {}, edges |-> {}, order |-> 0],
     raw |-> <<>>, seen_hashes |-> {}, counter |-> 0, in_pass |-> FALSE]

StreamsInit ==
    /\ adj_order = 0
    /\ gens = [g \in StreamIds |-> NoStream]

Init ==
    /\ MixInit /\ CallInit /\ CanonInit
    /\ BasicInit /\ RecordInit /\ GibsonInit /\ StreamsInit

(***************************************************************************)
(* The callers of compute_circular_assemblies.                             *)
(***************************************************************************)
\* Calling compute_circular_assemblies creates the two generators; nothing
\* runs before the first next().
CallFrame ==
    /\ pc' = "loop"
    /\ stream' = "running"
    /\ raw' = IF call'.randomize THEN <<>>
              ELSE simple_cycles(connections_graph, 0, Len(frag))
    /\ UNCHANGED <<in_pass, seen_hashes, counter, yielded, assembled, pulls,
                   items, returned, seen_run, pass_new>>
    /\ UNCHANGED <<mix_vars, canon_vars, side_vars>>

\* BASICAssembly.simulate, from the mix of the adapted parts on.
simulate ==
    \E max_constructs \in 1..MaxConstructs :
    \E expected_constructs \in {AnyNumber, Exactly(1)} :
        /\ mix_pc = "ready"
        /\ pc = "idle"
        /\ call' = [NoCall EXCEPT !.caller = "simulate",
                                  !.max_constructs = max_constructs,
                                  !.expected_constructs = expected_constructs]
        /\ CallFrame

\* full_assembly_report, the ASSEMBLIES section.
full_assembly_report ==
    \E max_assemblies \in 1..MaxConstructs :
    \E fragments_filters \in FilterLists :
        /\ mix_pc = "ready"
        /\ pc = "idle"
        /\ call' = [NoCall EXCEPT !.caller = "report",
                                  !.max_constructs = max_assemblies,
                                  !.fragments_set_filters = fragments_filters]
        /\ CallFrame

\* list(zip([1, 2, 3], mix.compute_circular_assemblies(randomize=True, ...)))
zip_constructs ==
    \E cutoff \in 0..MaxCutoff :
    \E fragments_set_filters \in FilterLists :
        /\ mix_pc = "ready"
        /\ pc = "idle"
        /\ call' = [NoCall EXCEPT
               !.caller = "zip", !.max_constructs = ZipLength, !.randomize = TRUE,
               !.randomization_staling_cutoff = cutoff,
               !.fragments_set_filters = fragments_set_filters]
        /\ CallFrame

\* list(mix.compute_circular_assemblies(seqrecord_filters=...))
list_constructs ==
    \E fragments_set_filters \in FilterLists :
    \E seqrecord_filters \in FilterLists :
        /\ mix_pc = "ready"
        /\ pc = "idle"
        /\ call' = [NoCall EXCEPT
               !.caller = "list",
               !.fragments_set_filters = fragments_set_filters,
               !.seqrecord_filters = seqrecord_filters]
        /\ CallFrame

\* zip(range(cap), generator): the range is asked first, the generator only
\* when the range still has a value.  list() always asks the generator.
zip_next ==
    /\ pc = "loop"
    /\ IF call.caller # "list" /\ Len(items) >= call.max_constructs
       THEN pc' = "finish" /\ UNCHANGED pulls
       ELSE pc' = "pulling" /\ pulls' = pulls + 1
    /\ UNCHANGED <<call, raw, in_pass, seen_hashes, counter, stream, yielded,
                   assembled, items, returned, seen_run, pass_new>>
    /\ UNCHANGED <<mix_vars, canon_vars, side_vars>>

(***************************************************************************)
(* compute_circular_fragments_sets and compute_circular_assemblies: one    *)
(* step takes one cycle of the traversal through both generators.          *)
(***************************************************************************)
\* An unseen cycle: remember it, filter it, yield it, assemble it, filter
\* the construct, yield the construct.
NewCycle(cycle, hash) ==
    /\ seen_hashes' = seen_hashes \cup {hash}
    /\ IF passes_fragments_set_filters(call.fragments_set_filters, frag, cycle)
       THEN /\ yielded' = Append(yielded, cycle)
            /\ assembled' = Append(assembled, cycle)
            /\ LET construct == assemble(frag, cycle)
               IN IF passes_seqrecord_filters(call.seqrecord_filters, construct)
                  THEN items' = Append(items, construct) /\ pc' = "loop"
                  ELSE UNCHANGED <<items, pc>>
       ELSE UNCHANGED <<yielded, assembled, items, pc>>

\* Deterministic mode: one iteration of the for loop.
next_cycle ==
    /\ pc = "pulling"
    /\ ~call.randomize
    /\ raw # <<>>
    /\ raw' = Tail(raw)
    /\ LET cycle == standardized(frag, Head(raw))
           hash == cycle_hash(frag, cycle)
       IN IF hash \in seen_hashes
          THEN UNCHANGED <<seen_hashes, yielded, assembled, items, pc>>
          ELSE NewCycle(cycle, hash)
    /\ UNCHANGED <<call, in_pass, counter, stream, pulls, returned, seen_run, pass_new>>
    /\ UNCHANGED <<mix_vars, canon_vars, side_vars>>

\* Deterministic mode: the traversal is over.
cycles_exhausted ==
    /\ pc = "pulling"
    /\ ~call.randomize
    /\ raw = <<>>
    /\ stream' = "exhausted"
    /\ pc' = "finish"
    /\ UNCHANGED <<call, raw, in_pass, seen_hashes, counter, yielded, assembled,
                   pulls, items, returned, seen_run, pass_new>>
    /\ UNCHANGED <<mix_vars, canon_vars, side_vars>>

\* Randomized mode: a new pass of the while loop.
shuffle_graph_nodes_and_edges ==
    /\ pc = "pulling"
    /\ call.randomize
    /\ ~in_pass
    /\ \E shift \in 0..MaxShuffle :
           raw' = simple_cycles(connections_graph, shift, Len(frag))
    /\ counter' = 0
    /\ in_pass' = TRUE
    /\ pass_new' = FALSE
    /\ UNCHANGED <<call, pc, seen_hashes, stream, yielded, assembled, pulls,
                   items, returned, seen_run>>
    /\ UNCHANGED <<mix_vars, canon_vars, side_vars>>

\* Randomized mode: one iteration of the for loop of the pass.
next_shuffled_cycle ==
    /\ pc = "pulling"
    /\ call.randomize
    /\ in_pass
    /\ raw # <<>>
    /\ raw' = Tail(raw)
    /\ LET cycle == standardized(frag, Head(raw))
           hash == cycle_hash(frag, cycle)
       IN IF hash \in seen_hashes
          THEN /\ counter' = counter + 1
               /\ seen_run' = seen_run + 1
               /\ IF counter + 1 > call.randomization_staling_cutoff
                  THEN stream' = "staled" /\ pc' = "raised"
                  ELSE UNCHANGED <<stream, pc>>
               /\ UNCHANGED <<seen_hashes, yielded, assembled, items, in_pass, pass_new>>
          ELSE /\ NewCycle(cycle, hash)
               /\ in_pass' = ~passes_fragments_set_filters(
                                  call.fragments_set_filters, frag, cycle)
               /\ seen_run' = 0
               /\ pass_new' = TRUE
               /\ UNCHANGED <<counter, stream>>
    /\ UNCHANGED <<call, pulls, returned>>
    /\ UNCHANGED <<mix_vars, canon_vars, side_vars>>

\* Randomized mode: the for loop went through all cycles.
pass_exhausted ==
    /\ pc = "pulling"
    /\ call.randomize
    /\ in_pass
    /\ raw = <<>>
    /\ stream' = "exhausted"
    /\ pc' = "finish"
    /\ in_pass' = FALSE
    /\ UNCHANGED <<call, raw, seen_hashes, counter, yielded, assembled, pulls,
                   items, returned, seen_run, pass_new>>
    /\ UNCHANGED <<mix_vars, canon_vars, side_vars>>

(***************************************************************************)
(* What the callers return.                                                *)
(***************************************************************************)
RECURSIVE sorted_by_seq(_)
\* A faulty variant of the sort: the constructs in the order of the stream.
sorted_by_seq_unsorted(constructs) == constructs

\* sorted(constructs, key=lambda asm: str(asm.seq)) (stable).
sorted_by_seq(constructs) ==
    IF constructs = <<>> THEN <<>>
    ELSE LET n == Len(constructs)
             x == constructs[n]
             t == sorted_by_seq(SubSeq(constructs, 1, n - 1))
             k == Cardinality({ i \in 1..Len(t) : ~LexLT(x.seq, t[i].seq) })
         IN SubSeq(t, 1, k) \o <<x>> \o SubSeq(t, k + 1, Len(t))

\* Assembly._detect_constructs_number_error
detect_constructs_number_error(found, expected_constructs, errors) ==
    IF ~expected_constructs.any_number /\ found # expected_constructs.number
    THEN Append(errors, "wrong_number_of_constructs")
    ELSE errors

\* Assembly._detect_max_constructs_reached
detect_max_constructs_reached(found, max_constructs, warnings) ==
    IF found >= max_constructs
    THEN Append(warnings, "max_constructs_reached")
    ELSE warnings

\* AssemblySimulation(construct_records=..., errors=..., warnings=...)
AssemblySimulation(construct_records, errors, warnings) ==
    [kind |-> "simulation", construct_records |-> construct_records,
     errors |-> errors, warnings |-> warnings]

ReturnFrame ==
    /\ pc' = "done"
    /\ UNCHANGED <<call, raw, in_pass, seen_hashes, counter, stream, yielded,
                   assembled, pulls, items, seen_run, pass_new>>
    /\ UNCHANGED <<mix_vars, canon_vars, side_vars>>

\* BASICAssembly.simulate, after the zip: the warnings list is filled but the
\* simulation is built without it.
simulate_return ==
    /\ pc = "finish"
    /\ call.caller = "simulate"
    /\ LET construct_records == sorted_by_seq(items)
           found == Len(construct_records)
           errors == detect_constructs_number_error(
                         found, call.expected_constructs, <<>>)
           warnings == detect_max_constructs_reached(
                           found, call.max_constructs, <<>>)
       IN returned' = AssemblySimulation(construct_records, errors, <<>>)
    /\ ReturnFrame

\* full_assembly_report, after the zip.
full_assembly_report_return ==
    /\ pc = "finish"
    /\ call.caller = "report"
    /\ returned' = [kind |-> "report", n_constructs |-> Len(items),
                    assemblies_data |-> items]
    /\ ReturnFrame

\* list(...) of the test callers.
list_return ==
    /\ pc = "finish"
    /\ call.caller \in {"zip", "list"}
    /\ returned' = [kind |-> "list", list |-> items]
    /\ ReturnFrame

vars == <<mix_vars, call_vars, canon_vars, side_vars>>

Next ==
    \/ initialize
    \/ simulate
    \/ full_assembly_report
    \/ zip_constructs
    \/ list_constructs
    \/ zip_next
    \/ next_cycle
    \/ cycles_exhausted
    \/ shuffle_graph_nodes_and_edges
    \/ next_shuffled_cycle
    \/ pass_exhausted
    \/ simulate_return
    \/ full_assembly_report_return
    \/ list_return

Spec == Init /\ [][Next]_vars

(***************************************************************************)
(* Canonicalisation of the cycles of a mix, in every presentation.         *)
(***************************************************************************)
CanonFrame == UNCHANGED <<mix_vars, call_vars, side_vars>>

\* FragmentsCycle(cycle) for a cycle of the graph.
pick_cycle ==
    /\ mix_pc = "ready"
    /\ cycle_in = <<>>
    /\ \E c \in SimpleCycleSet(connections_graph, 0, Len(frag)) :
           cycle_in' = c /\ cycle_alt' = c
    /\ UNCHANGED <<std_in, std_alt, std_twice>>
    /\ CanonFrame

\* The same cycle starting one fragment later.
rotate_cycle ==
    /\ cycle_alt # <<>>
    /\ std_in = <<>>
    /\ cycle_alt' = RotateLeft(cycle_alt, 1)
    /\ cycle_alt' # cycle_alt
    /\ UNCHANGED <<cycle_in, std_in, std_alt, std_twice>>
    /\ CanonFrame

\* FragmentsCycle.reverse_complement()
reverse_complement_cycle ==
    /\ cycle_alt # <<>>
    /\ std_in = <<>>
    /\ cycle_alt' = cycle_reverse_complement(frag, cycle_alt)
    /\ UNCHANGED <<cycle_in, std_in, std_alt, std_twice>>
    /\ CanonFrame

\* FragmentsCycle.standardized() on both presentations.
standardize ==
    /\ cycle_in # <<>>
    /\ std_in = <<>>
    /\ std_in' = standardized(frag, cycle_in)
    /\ std_alt' = standardized(frag, cycle_alt)
    /\ UNCHANGED <<cycle_in, cycle_alt, std_twice>>
    /\ CanonFrame

\* standardized() of the standardized cycle.
standardize_again ==
    /\ std_in # <<>>
    /\ std_twice = <<>>
    /\ std_twice' = standardized(frag, std_in)
    /\ UNCHANGED <<cycle_in, cycle_alt, std_in, std_alt>>
    /\ CanonFrame

NextCanon ==
    \/ initialize
    \/ pick_cycle
    \/ rotate_cycle
    \/ reverse_complement_cycle
    \/ standardize
    \/ standardize_again

SpecCanon == Init /\ [][NextCanon]_vars

(***************************************************************************)
(* BASICAssembly.simulate: parts are ligated to their adapters triplet by   *)
(* triplet before the adapted parts are mixed.                             *)
(***************************************************************************)
\* What BsaI makes of the parts tried: a left adapter (long left overhang),
\* a part that fits both adapters, a right adapter (long right overhang),
\* a part that fits the left adapter only.
BasicPool ==
    << Content(Sticky(<<1, 1, 1, 1, 1>>, "5p", -1), <<1>>,    Sticky(<<2>>, "5p", 1)),
       Content(Sticky(<<3>>, "5p", -1),             <<2, 2>>, Sticky(<<1>>, "5p", 1)),
       Content(Sticky(<<4>>, "5p", -1),             <<3>>,    Sticky(<<2, 2, 2, 2, 2>>, "5p", 1)),
       Content(Sticky(<<3>>, "5p", -1),             <<4>>,    Sticky(<<2>>, "5p", 1)) >>

PartLists ==
    UNION { [1..n -> Range(BasicPool)] : n \in 0..MaxParts }

\* No mix is built yet.
NoMix ==
    /\ digest = <<>>
    /\ mix_pc = "new"
    /\ frag = <<>>
    /\ fragments = <<>>
    /\ reverse_fragments = <<>>
    /\ connections_graph = [nodes |-> {}, edges |-> {}]

InitBasic ==
    /\ NoMix
    /\ CallInit
    /\ CanonInit
    /\ RecordInit
    /\ GibsonInit
    /\ StreamsInit
    /\ parts \in PartLists
    /\ basic_pc = "idle"
    /\ triplet_index = 0
    /\ simulation = [kind |-> "none"]
    /\ adapted_part_records = <<>>

\* part_triplets = [parts[i : i + 3] for i in range(0, L, 3)]
part_triplets(ps) ==
    [t \in 1..(Len(ps) \div 3) |-> SubSeq(ps, 3 * t - 2, 3 * t)]

\* The fragments of the mix with an overhang longer than 4.
adapter_fragments(heap, ids) ==
    { i \in ids : IF Len(heap[i].left.s) >= Len(heap[i].right.s)
                  THEN Len(heap[i].left.s) > LongOverhang
                  ELSE Len(heap[i].right.s) > LongOverhang }

\* The nodes that the edges reach from the nodes of `reached`.
RECURSIVE Descendants(_, _)
Descendants(edges, reached) ==
    LET more == reached \cup { e[2] : e \in { d \in edges : d[1] \in reached } }
    IN IF more = reached THEN reached ELSE Descendants(edges, more)

\* nx.has_path(graph, start, end)
has_path(graph, start, end) == end \in Descendants(graph.edges, {start})

\* The paths of the graph from start along the edges, by length, until one
\* reaches end.
RECURSIVE PathsUntil(_, _, _)
PathsUntil(graph, paths, end) ==
    LET hits == { p \in paths : p[Len(p)] = end }
    IN IF hits # {} \/ paths = {} THEN hits
       ELSE PathsUntil(graph,
                { Append(pv[1], pv[2]) :
                    pv \in { qw \in paths \X graph.nodes :
                               /\ qw[2] \notin Range(qw[1])
                               /\ <<qw[1][Len(qw[1])], qw[2]>> \in graph.edges } },
                end)

\* nx.shortest_path(graph, start, end), for end reachable from start.
shortest_path(graph, start, end) ==
    CHOOSE p \in PathsUntil(graph, {<<start>>}, end) : TRUE

\* score = sum([f.is_reversed for f in fragments])
path_score(heap, path) ==
    Cardinality({ i \in 1..Len(path) : heap[path[i]].is_reverse })

\* simulate_adapters_assembly on a mix that is built: the adapted part, an
\* AssemblySimulation (wrong number of long overhangs) or the pair
\* (mix, error) (wrong number of ligations).
adapters_assembly_result(heap, ids, graph) ==
    LET adapters == adapter_fragments(heap, ids)
        ligations == { se \in adapters \X adapters :
                         se[1] # se[2] /\ has_path(graph, se[1], se[2]) }
        paths == { shortest_path(graph, se[1], se[2]) : se \in ligations }
        best == CHOOSE p \in paths :
                    \A q \in paths : path_score(heap, p) <= path_score(heap, q)
    IN IF Cardinality(adapters) # AdapterEnds
       THEN [kind |-> "simulation",
             value |-> AssemblySimulation(<<>>, <<"too_many_long_overhangs">>, <<>>)]
       ELSE IF Cardinality(ligations) # AdapterLigations
       THEN [kind |-> "pair", error |-> "too_many_ligations"]
       ELSE [kind |-> "fragment", fragments |-> best]

BasicFrame == UNCHANGED <<call, pc, raw, in_pass, seen_hashes, counter, stream,
                          yielded, assembled, pulls, items, seen_run, pass_new,
                          canon_vars, parts, record_vars, gibson_vars,
                          streams_vars>>

\* BASICAssembly.simulate up to the loop over the triplets.
basic_simulate ==
    /\ basic_pc = "idle"
    /\ IF Len(parts) % 3 # 0
       THEN /\ returned' = AssemblySimulation(<<>>, <<"parts_not_multiple_of_3">>, <<>>)
            /\ basic_pc' = "done"
       ELSE /\ basic_pc' = "triplets"
            /\ UNCHANGED returned
    /\ UNCHANGED <<triplet_index, simulation, adapted_part_records, mix_vars>>
    /\ BasicFrame

\* simulation = self.simulate_adapters_assembly(triplet)
simulate_adapters_assembly ==
    /\ basic_pc = "triplets"
    /\ triplet_index < Len(part_triplets(parts))
    /\ LET triplet == part_triplets(parts)[triplet_index + 1]
           heap0 == compute_fragments(triplet)
           frs == [i \in 1..Len(heap0) |-> i]
           rev == compute_reverse_fragments(heap0, frs)
           graph == compute_connections_graph(rev.frag, frs \o rev.reverse_fragments)
       IN /\ digest' = triplet
          /\ frag' = rev.frag
          /\ fragments' = frs
          /\ reverse_fragments' = rev.reverse_fragments
          /\ connections_graph' = graph
          /\ simulation' = adapters_assembly_result(
                               rev.frag, Range(frs) \cup Range(rev.reverse_fragments), graph)
    /\ basic_pc' = "returned"
    /\ UNCHANGED <<mix_pc, returned, triplet_index, adapted_part_records>>
    /\ BasicFrame

\* What simulate does with the value: an adapted part is kept, anything else
\* is unpacked as mix, error = simulation.
simulate_triplet_result ==
    /\ basic_pc = "returned"
    /\ IF simulation.kind = "fragment"
       THEN /\ adapted_part_records' = Append(adapted_part_records, simulation.fragments)
            /\ triplet_index' = triplet_index + 1
            /\ basic_pc' = "triplets"
            /\ UNCHANGED returned
       ELSE IF simulation.kind = "pair"
       THEN /\ returned' = AssemblySimulation(<<>>, <<simulation.error>>, <<>>)
            /\ basic_pc' = "done"
            /\ UNCHANGED <<adapted_part_records, triplet_index>>
       ELSE /\ basic_pc' = "raised"
            /\ UNCHANGED <<returned, adapted_part_records, triplet_index>>
    /\ UNCHANGED <<simulation, mix_vars>>
    /\ BasicFrame

\* The loop is over: the adapted parts go to the mix of all adapted parts.
mix_adapted_parts ==
    /\ basic_pc = "triplets"
    /\ triplet_index = Len(part_triplets(parts))
    /\ basic_pc' = "mix"
    /\ UNCHANGED <<returned, triplet_index, simulation, adapted_part_records, mix_vars>>
    /\ BasicFrame

NextBasic ==
    \/ basic_simulate
    \/ simulate_adapters_assembly
    \/ simulate_triplet_result
    \/ mix_adapted_parts

SpecBasic == InitBasic /\ [][NextBasic]_vars

(***************************************************************************)
(* RestrictionLigationMix: the constructor copies the records, initialize  *)
(* gives a linear flag to the records that have none, compute_fragments    *)
(* digests each record by its flag.                                        *)
(***************************************************************************)
\* The stretches between the restriction sites of the records tried and the
\* overhangs the enzyme leaves at its cuts.
SegmentStrings == { <<1>>, <<3, 2>> }

CutOverhangs == { <<1>>, <<2>> }

\* A record: the sequence as its stretches (one more than cuts), the
\* overhang of each cut, and the linear attribute ("True", "False", or
\* "unset": the record has no such attribute).
Records ==
    UNION { { [segments |-> sg, overhangs |-> ov, linear |-> ln] :
                sg \in [1..(k + 1) -> SegmentStrings],
                ov \in [1..k -> CutOverhangs],
                ln \in {"unset", "True", "False"} } : k \in 0..MaxCuts }

\* The two ends a cut leaves: the right end of the product before it and
\* the left end of the product after it.
RightOfCut(o) == Sticky(o, "5p", 1)

LeftOfCut(o) == Sticky(ReverseComplement(o), "5p", -1)

\* digest_seqrecord_with_sticky_ends(construct, enzyme, linear=linear).
\* Linear: one product per stretch, the outer ends blunt.  Circular: the
\* last stretch runs through the origin into the first; no cut, no product.
digest_seqrecord_with_sticky_ends(construct, linear) ==
    LET sg == construct.segments
        ov == construct.overhangs
        k == Len(ov)
    IN IF linear = "True"
       THEN [j \in 1..(k + 1) |->
               Content(IF j = 1 THEN Blunt ELSE LeftOfCut(ov[j - 1]),
                       sg[j],
                       IF j = k + 1 THEN Blunt ELSE RightOfCut(ov[j]))]
       ELSE [j \in 1..k |->
               IF j < k
               THEN Content(LeftOfCut(ov[j]), sg[j + 1], RightOfCut(ov[j + 1]))
               ELSE Content(LeftOfCut(ov[k]), sg[k + 1] \o sg[1], RightOfCut(ov[1]))]

\* for construct in self.constructs: if not hasattr(construct, "linear"):
\*     construct.linear = True
set_linear_flags(cs) ==
    [i \in 1..Len(cs) |->
        IF cs[i].linear = "unset" THEN [cs[i] EXCEPT !.linear = "True"] ELSE cs[i]]

\* RestrictionLigationMix.compute_fragments: the products of all constructs.
digest_constructs(cs) ==
    Flatten([i \in 1..Len(cs) |->
                digest_seqrecord_with_sticky_ends(cs[i], cs[i].linear)])

InitRecord ==
    /\ NoMix
    /\ CallInit
    /\ CanonInit
    /\ BasicInit
    /\ GibsonInit
    /\ StreamsInit
    /\ records \in { <<r>> : r \in Records }
    /\ self_constructs = <<>>

\* RestrictionLigationMix.__init__: deepcopy, then initialize.
RestrictionLigationMix_init ==
    /\ mix_pc = "new"
    /\ LET cs == set_linear_flags(records)
           products == digest_constructs(cs)
           heap0 == compute_fragments(products)
           frs == [i \in 1..Len(heap0) |-> i]
           rev == compute_reverse_fragments(heap0, frs)
       IN /\ self_constructs' = cs
          /\ digest' = products
          /\ frag' = rev.frag
          /\ fragments' = frs
          /\ reverse_fragments' = rev.reverse_fragments
          /\ connections_graph' =
                 compute_connections_graph(rev.frag, frs \o rev.reverse_fragments)
    /\ mix_pc' = "ready"
    /\ UNCHANGED <<records, call_vars, canon_vars, basic_vars, gibson_vars,
                   streams_vars>>

NextRecord == RestrictionLigationMix_init

SpecRecord == InitRecord /\ [][NextRecord]_vars

(***************************************************************************)
(* GibsonAssemblyMix: the fragments are the constructs themselves, so a     *)
(* list given with the same object twice is a fragment list with the same  *)
(* object twice.                                                           *)
(***************************************************************************)
\* The caller's records, by object: blunt double-stranded sequences.
GibsonPool ==
    << Content(Blunt, <<1>>, Blunt),
       Content(Blunt, <<3, 2>>, Blunt),
       Content(Blunt, <<4, 4>>, Blunt) >>

\* Lists of the caller's objects, the same object allowed more than once.
GibsonLists ==
    UNION { [1..n -> 1..Len(GibsonPool)] : n \in 1..MaxFragments }

\* The first position of object x in the list.
FirstIndex(objs, x) == Min({ i \in 1..Len(objs) : objs[i] = x })

\* The positions where an object occurs for the first time.
FirstPositions(objs) ==
    { i \in 1..Len(objs) : FirstIndex(objs, objs[i]) = i }

\* deepcopy(constructs): one copy per object, an object listed twice is
\* copied once and its copy is listed twice.  The copy of the object at
\* position i, as a number among the copies.
CopyOf(objs, i) ==
    Cardinality({ j \in FirstPositions(objs) : j <= FirstIndex(objs, objs[i]) })

deepcopy(objs) ==
    [i \in 1..Len(objs) |-> CopyOf(objs, i)]

\* The copies: the n-th copy is that of the n-th object met in the list.
CopiedObjects(objs) ==
    [n \in 1..Cardinality(FirstPositions(objs)) |->
        GibsonPool[objs[CHOOSE i \in FirstPositions(objs) : CopyOf(objs, i) = n]]]

InitGibson ==
    /\ NoMix
    /\ CallInit
    /\ CanonInit
    /\ BasicInit
    /\ RecordInit
    /\ StreamsInit
    /\ gibson_given \in GibsonLists
    /\ gibson_constructs = <<>>

GibsonFrame == UNCHANGED <<digest, connections_graph, gibson_given,
                           call_vars, canon_vars, basic_vars, record_vars,
                           streams_vars>>

\* GibsonAssemblyMix.__init__ up to compute_fragments:
\* self.constructs = deepcopy(constructs); self.fragments = list(self.constructs)
GibsonAssemblyMix_compute_fragments ==
    /\ mix_pc = "new"
    /\ gibson_given # <<>>
    /\ gibson_constructs' = deepcopy(gibson_given)
    /\ frag' = compute_fragments(CopiedObjects(gibson_given))
    /\ fragments' = deepcopy(gibson_given)
    /\ mix_pc' = "fragments"
    /\ UNCHANGED reverse_fragments
    /\ GibsonFrame

\* AssemblyMix.compute_reverse_fragments on the fragments of the mix.
GibsonAssemblyMix_compute_reverse_fragments ==
    /\ mix_pc = "fragments"
    /\ LET rev == compute_reverse_fragments(frag, fragments)
       IN /\ frag' = rev.frag
          /\ reverse_fragments' = rev.reverse_fragments
    /\ mix_pc' = "reversed"
    /\ UNCHANGED <<fragments, gibson_constructs>>
    /\ GibsonFrame

NextGibson ==
    \/ GibsonAssemblyMix_compute_fragments
    \/ GibsonAssemblyMix_compute_reverse_fragments

SpecGibson == InitGibson /\ [][NextGibson]_vars

(***************************************************************************)
(* Several cycle streams on one mix.  compute_circular_fragments_sets      *)
(* returns a generator; generators of the same mix advance in any order.   *)
(***************************************************************************)
\* graph = nx.DiGraph(self.connections_graph) followed by
\* shuffle_graph_nodes_and_edges(graph): the order of the adjacency of the
\* mix's graph and of the generator's graph after a shuffle to `shift`.
shuffled_in_place(mix_order, shift) == [mix |-> shift, copy |-> shift]

shuffled(mix_order, shift) == [mix |-> mix_order, copy |-> shift]

\* The graph of the mix as a traversal meets it.
MixGraph ==
    [nodes |-> connections_graph.nodes, edges |-> connections_graph.edges,
     order |-> adj_order]

StreamsFrame == UNCHANGED <<mix_vars, call_vars, canon_vars, basic_vars,
                            record_vars, gibson_vars>>

\* The modes the streams are asked in: the first in either mode, the second
\* deterministic (randomize is False unless a caller asks otherwise).
StreamModes(g) == IF g = 1 THEN BOOLEAN ELSE {FALSE}

\* compute_circular_fragments_sets(randomize=...), entered: the randomized
\* generator copies the graph, the deterministic one traverses the mix's.
compute_circular_fragments_sets(g) ==
    /\ mix_pc = "ready"
    /\ gens[g].state = "none"
    /\ \/ /\ FALSE \in StreamModes(g)
          /\ gens' = [gens EXCEPT ![g] =
                     [NoStream EXCEPT
                        !.state = "running", !.graph = MixGraph,
                        !.raw = simple_cycles(connections_graph, adj_order, Len(frag))]]
       \/ \E cutoff \in 0..MaxCutoff :
              /\ TRUE \in StreamModes(g)
              /\ gens' = [gens EXCEPT ![g] =
                     [NoStream EXCEPT
                        !.state = "running", !.randomize = TRUE,
                        !.randomization_staling_cutoff = cutoff,
                        !.graph = MixGraph]]
    /\ UNCHANGED adj_order
    /\ StreamsFrame

\* Randomized generator: a new pass of the while loop.
generator_shuffle(g) ==
    /\ gens[g].state = "running"
    /\ gens[g].randomize
    /\ ~gens[g].in_pass
    /\ \E shift \in 0..MaxShuffle :
           LET orders == shuffled(adj_order, shift)
           IN /\ adj_order' = orders.mix
              /\ gens' = [gens EXCEPT
                     ![g].graph.order = orders.copy,
                     ![g].raw = simple_cycles(gens[g].graph, orders.copy, Len(frag)),
                     ![g].counter = 0,
                     ![g].in_pass = TRUE]
    /\ StreamsFrame

\* Either generator: one iteration of the for loop over the cycles.  There
\* is no filter: a cycle whose hash is new is yielded.
generator_next_cycle(g) ==
    /\ gens[g].state = "running"
    /\ gens[g].randomize => gens[g].in_pass
    /\ gens[g].raw # <<>>
    /\ LET cycle == standardized(frag, Head(gens[g].raw))
           hash == cycle_hash(frag, cycle)
           rest == [gens[g] EXCEPT !.raw = Tail(gens[g].raw)]
       IN gens' = [gens EXCEPT ![g] =
              IF hash \in rest.seen_hashes
              THEN IF ~rest.randomize THEN rest
                   ELSE [rest EXCEPT
                           !.counter = rest.counter + 1,
                           !.state = IF rest.counter + 1 > rest.randomization_staling_cutoff
                                     THEN "staled" ELSE "running"]
              ELSE [rest EXCEPT
                      !.seen_hashes = rest.seen_hashes \cup {hash},
                      !.in_pass = FALSE]]
    /\ UNCHANGED adj_order
    /\ StreamsFrame

\* Either generator: the for loop went through all cycles.
generator_exhausted(g) ==
    /\ gens[g].state = "running"
    /\ gens[g].randomize => gens[g].in_pass
    /\ gens[g].raw = <<>>
    /\ gens' = [gens EXCEPT ![g].state = "exhausted", ![g].in_pass = FALSE]
    /\ UNCHANGED adj_order
    /\ StreamsFrame

NextStreams ==
    \/ initialize
    \/ \E g \in StreamIds : compute_circular_fragments_sets(g)
    \/ \E g \in StreamIds : generator_shuffle(g)
    \/ \E g \in StreamIds : generator_next_cycle(g)
    \/ \E g \in StreamIds : generator_exhausted(g)

InitStreams ==
    /\ Init
    /\ Len(digest) <= MaxStreamFragments

SpecStreams == InitStreams /\ [][NextStreams]_vars

(***************************************************************************)
(* Properties.                                                             *)
(***************************************************************************)
AllFragments == Range(fragments) \cup Range(reverse_fragments)

\* d is c up to rotation and reverse complement.
Equivalent(c, d) ==
    \E k \in 0..(Len(c) - 1) :
        \/ d = RotateLeft(c, k)
        \/ d = RotateLeft(Reverse([i \in 1..Len(c) |-> frag[c[i]].reverse_fragment]), k)

\* C1: after initialize, for every ordered pair (a, b) of fragments of
\* forward + reverse, a = b included, the graph has the edge a -> b iff a's
\* right overhang is complementary to b's left overhang.
C1_EdgeIffClip ==
    mix_pc = "ready" =>
        \A a \in AllFragments : \A b \in AllFragments :
            (<<a, b>> \in connections_graph.edges)
                <=> will_clip_in_this_order(frag[a], frag[b])

\* C2: no two fragment cycles yielded by one stream are equal up to rotation
\* and reverse complement.
C2_NoEquivalentYields ==
    \A i \in 1..Len(yielded) : \A j \in 1..Len(yielded) :
        i < j => ~Equivalent(yielded[i], yielded[j])

\* C3: a fully consumed deterministic stream without filters has yielded,
\* for every simple cycle of the graph, a cycle equal to it up to rotation
\* and reverse complement.
C3_StreamComplete ==
    (stream = "exhausted" /\ ~call.randomize /\ call.fragments_set_filters = <<>>
        /\ call.seqrecord_filters = <<>>) =>
        \A c \in SimpleCycleSet(connections_graph, 0, Len(frag)) :
            \E i \in 1..Len(yielded) : Equivalent(c, yielded[i])

\* fs is a cycle of the compatibility relation, wrap-around included.
IsClippingCycle(fs) ==
    \A i \in 1..Len(fs) :
        will_clip_in_this_order(frag[fs[i]], frag[fs[(i % Len(fs)) + 1]])

\* C4: every fragment list the cycle stream yields clips in order, the last
\* fragment with the first one included.
C4_YieldedClipInOrder ==
    \A i \in 1..Len(yielded) : IsClippingCycle(yielded[i])

\* C4 witness: a randomized stream has yielded a cycle of three fragments or
\* more whose fragments do not clip when taken in the opposite order.
C4_Witness ==
    /\ call.randomize
    /\ \E i \in 1..Len(yielded) :
           /\ Len(yielded[i]) >= 3
           /\ ~IsClippingCycle(Reverse(yielded[i]))

\* C5: standardized() gives the same fragment list and the same key for a
\* cycle and for the same cycle rotated or reverse-complemented.
C5_StandardizedInvariant ==
    std_in # <<>> =>
        /\ std_alt = std_in
        /\ cycle_hash(frag, std_alt) = cycle_hash(frag, std_in)

\* C6: standardized() of a standardized cycle has the same fragment order
\* and the same key.
C6_StandardizedIdempotent ==
    std_twice # <<>> =>
        /\ std_twice = std_in
        /\ cycle_hash(frag, std_twice) = cycle_hash(frag, std_in)

\* C7: every construct yielded passes every record filter and comes from a
\* fragment list that passes every fragment-set filter, and assemble is
\* only ever called on fragment lists that pass every fragment-set filter.
C7_FiltersRespected ==
    /\ \A i \in 1..Len(items) :
           /\ \A k \in 1..Len(call.fragments_set_filters) :
                  ApplyFragmentsFilter(call.fragments_set_filters[k], frag,
                                       items[i].fragments)
           /\ \A k \in 1..Len(call.seqrecord_filters) :
                  ApplyRecordFilter(call.seqrecord_filters[k], items[i])
    /\ \A i \in 1..Len(assembled) :
           \A k \in 1..Len(call.fragments_set_filters) :
               ApplyFragmentsFilter(call.fragments_set_filters[k], frag, assembled[i])

\* C7 witness: with both filter families set, a construct has been yielded,
\* a cycle has been rejected before assembly and a construct after it.
C7_Witness ==
    /\ call.fragments_set_filters # <<>>
    /\ call.seqrecord_filters # <<>>
    /\ Len(items) >= 1
    /\ Len(assembled) > Len(items)
    /\ Cardinality(seen_hashes) > Len(assembled)

\* C8: the stream fails with "Randomization staled" only after more than
\* randomization_staling_cutoff already-seen cycles in a row, no new
\* canonical cycle between them.
C8_StaledOnlyAfterSeenInARow ==
    stream = "staled" => seen_run > call.randomization_staling_cutoff

\* The constructs are in the order of their sequence strings.
SortedBySeq(constructs) ==
    \A i \in 1..Len(constructs) : \A j \in 1..Len(constructs) :
        i < j => ~LexLT(constructs[j].seq, constructs[i].seq)

\* t holds the elements of s, each as many times.
SameItems(s, t) ==
    /\ Len(s) = Len(t)
    /\ \A x \in Range(s) \cup Range(t) :
           Cardinality({ i \in 1..Len(s) : s[i] = x })
               = Cardinality({ i \in 1..Len(t) : t[i] = x })

C10_MaxConstructsWarning ==
    (pc = "done" /\ call.caller = "simulate"
        /\ Len(returned.construct_records) >= call.max_constructs) =>
        /\ "max_constructs_reached" \in Range(returned.warnings)
        /\ "max_constructs_reached" \notin Range(returned.errors)

\* The flaw a failed BASIC simulation has to report: the part count, or what
\* is wrong with the sub-mix of the triplet it stopped at.
ExpectedFlaw ==
    IF Len(parts) % 3 # 0 THEN "parts_not_multiple_of_3"
    ELSE IF Cardinality(adapter_fragments(frag, AllFragments)) # AdapterEnds
    THEN "too_many_long_overhangs"
    ELSE "too_many_ligations"

\* C11: no exception escapes BASICAssembly.simulate, and when the adapters
\* stage fails simulate returns a simulation with the flaw of the failure in
\* its errors and no construct records; a part count that is not a multiple
\* of three is reported before any mix is built.
C11_AdapterFailuresReturned ==
    /\ basic_pc # "raised"
    /\ basic_pc = "done" =>
           /\ returned = AssemblySimulation(<<>>, <<ExpectedFlaw>>, <<>>)
           /\ Len(parts) % 3 # 0 => frag = <<>>

\* C12: a record given to a mix without a linear flag is treated as
\* circular: once the mix is initialized the flag of its construct is false
\* and the fragments of the mix are those of the circular digestion.
C12_DefaultCircular ==
    (mix_pc = "ready" /\ records # <<>>) =>
        /\ \A i \in 1..Len(records) :
               records[i].linear = "unset" => self_constructs[i].linear = "False"
        /\ digest = Flatten([i \in 1..Len(records) |->
                        digest_seqrecord_with_sticky_ends(records[i],
                            IF records[i].linear = "unset" THEN "False"
                            ELSE records[i].linear)])

\* C13: after compute_reverse_fragments, whatever the fragment list (the
\* same object possibly listed more than once), reverse_fragments is as long
\* as fragments, fragments[i] and reverse_fragments[i] are each other's
\* reverse_fragment, the first not reversed and the second reversed, the
\* twin of the twin of every fragment is the fragment, and every fragment
\* is the twin of exactly one fragment.
C13_ReverseTwins ==
    mix_pc \in {"reversed", "ready"} =>
        /\ Len(reverse_fragments) = Len(fragments)
        /\ \A i \in 1..Len(fragments) :
               /\ frag[fragments[i]].reverse_fragment = reverse_fragments[i]
               /\ frag[reverse_fragments[i]].reverse_fragment = fragments[i]
               /\ ~frag[fragments[i]].is_reverse
               /\ frag[reverse_fragments[i]].is_reverse
        /\ \A f \in AllFragments :
               /\ frag[frag[f].reverse_fragment].reverse_fragment = f
               /\ Cardinality({ g \in AllFragments : frag[g].reverse_fragment = f }) = 1

\* C14: once the mix is initialized, the nodes of its compatibility graph
\* are the forward fragments together with the reverse fragments, those that
\* clip with no other fragment included.
C14_GraphNodesAreAllFragments ==
    mix_pc = "ready" => connections_graph.nodes = AllFragments

\* C15: no step of a cycle stream, deterministic or randomized, whatever
\* the other streams of the mix have done, changes the mix's graph (nodes,
\* edges, adjacency order) or its fragment lists; the shuffle acts on the
\* generator's own copy; every stream enumerates over the nodes and edges
\* of the graph as built, a deterministic one in the order as built.
C15_StreamsLeaveMixUnchanged ==
    [][mix_pc = "ready" =>
         /\ UNCHANGED <<connections_graph, adj_order, fragments, reverse_fragments, frag>>
         /\ \A g \in StreamIds :
                gens'[g].state # "none" =>
                    /\ gens'[g].graph.nodes = connections_graph.nodes
                    /\ gens'[g].graph.edges = connections_graph.edges
                    /\ ~gens'[g].randomize => gens'[g].graph.order = 0]_vars

\* A randomized stream has shuffled its graph and yielded, is left partly
\* consumed, and a deterministic stream of the same mix has yielded too.
C15_Witness ==
    \E g, h \in StreamIds :
        /\ g # h
        /\ gens[g].randomize /\ gens[g].state = "running"
        /\ gens[g].graph.order # 0
        /\ gens[g].seen_hashes # {}
        /\ ~gens[h].randomize /\ gens[h].state = "running"
        /\ gens[h].seen_hashes # {}
        /\ gens[h].raw # <<>>

====
